---- MODULE Spec2Model ----
(***************************************************************************)
(* PDF Consultor: the Hybrid Retrieval Engine (app/rag_service.py), the    *)
(* RAPTOR hierarchy builder (app/raptor_service.py) and the request        *)
(* handlers that drive them (app/main.py), as state machines.              *)
(*                                                                         *)
(* Strings are sequences of one-character strings, so that the f-string    *)
(* that builds a fragment id and str.startswith are computed, not assumed. *)
(* Floats are exact rationals [n, d] with d > 0.                           *)
(***************************************************************************)
EXTENDS Integers, Sequences, FiniteSets, TLC

(***************************************************************************)
(* Bounds of the model.                                                    *)
(***************************************************************************)
\* chunks handed to one add_documents call
MaxChunks == 2
\* vectors the index may hold (add_documents is not taken beyond it)
MaxIndex == 3
\* largest top_k a search is called with
MaxTopK == 2
\* length of each ranked list given to the fusion functions
MaxLen == 2
\* fragments handed to build_raptor_tree, and the length of the pattern of
\* texts they repeat
MaxFragments == 8
MaxPeriod == 3
\* largest max_depth and min_chunks build_raptor_tree is called with
MaxDepth == 3
MaxMinChunks == 4
\* fragments of the trees that are queried, and of the builds that are
\* followed to their end under fairness
MaxTreeFragments == 3
\* upload, delete and reindex requests served in one run
MaxRequests == 3

(***************************************************************************)
(* Program constants.                                                      *)
(***************************************************************************)
rrf_k == 60

\* hybrid_weight_vector = 0.7 and hybrid_weight_keyword = 0.3
hybrid_weight_vector == [n |-> 7, d |-> 10]
hybrid_weight_keyword == [n |-> 3, d |-> 10]

(***************************************************************************)
(* Exact rational arithmetic standing for Python floats.                   *)
(***************************************************************************)
Abs(x) == IF x < 0 THEN 0 - x ELSE x

RECURSIVE Gcd(_, _)
Gcd(a, b) == IF b = 0 THEN a ELSE Gcd(b, a % b)

Q(n, d) ==
    LET g == Gcd(Abs(n), d)
    IN  [n |-> n \div g, d |-> d \div g]

QInt(i) == [n |-> i, d |-> 1]
QZero == QInt(0)
QOne == QInt(1)

QAdd(x, y) == Q(x.n * y.d + y.n * x.d, x.d * y.d)
QMul(x, y) == Q(x.n * y.n, x.d * y.d)

\* x / y for y # 0
QDiv(x, y) ==
    IF y.n > 0 THEN Q(x.n * y.d, x.d * y.n)
    ELSE Q((0 - x.n) * y.d, x.d * (0 - y.n))

\* a/b <= c/d for a, c >= 0 and b, d > 0, without multiplying
RECURSIVE LeqPos(_, _, _, _)
LeqPos(a, b, c, d) ==
    LET qa == a \div b
        qc == c \div d
        ra == a % b
        rc == c % d
    IN  IF qa # qc THEN qa < qc
        ELSE IF ra = 0 THEN TRUE
        ELSE IF rc = 0 THEN FALSE
        ELSE LeqPos(d, rc, b, ra)

QLeq(x, y) ==
    IF x.n < 0
    THEN IF y.n < 0 THEN LeqPos(0 - y.n, y.d, 0 - x.n, x.d) ELSE TRUE
    ELSE IF y.n < 0 THEN FALSE ELSE LeqPos(x.n, x.d, y.n, y.d)

QLess(x, y) == ~QLeq(y, x)

Min(a, b) == IF a <= b THEN a ELSE b
Max(a, b) == IF a >= b THEN a ELSE b

(***************************************************************************)
(* Strings.                                                                *)
(***************************************************************************)
Digits == <<"0", "1", "2", "3", "4", "5", "6", "7", "8", "9">>

\* str(i) for i >= 0
RECURSIVE ToStr(_)
ToStr(i) ==
    IF i < 10 THEN <<Digits[i + 1]>>
    ELSE ToStr(i \div 10) \o <<Digits[(i % 10) + 1]>>

\* s.startswith(p)
StartsWith(s, p) == Len(p) <= Len(s) /\ SubSeq(s, 1, Len(p)) = p

\* term in text
Contains(text, term) ==
    \E i \in 0..(Len(text) - Len(term)) : SubSeq(text, i + 1, i + Len(term)) = term

LowerChar(c) ==
    CASE c = "A" -> "a"
      [] c = "B" -> "b"
      [] c = "C" -> "c"
      [] c = "D" -> "d"
      [] OTHER -> c

\* s.lower()
Lower(s) == [i \in 1..Len(s) |-> LowerChar(s[i])]

\* s.split(): the maximal runs of non-blank characters
RECURSIVE SplitFrom(_, _, _)
SplitFrom(s, i, word) ==
    IF i > Len(s) THEN IF word = <<>> THEN <<>> ELSE <<word>>
    ELSE IF s[i] = " "
         THEN (IF word = <<>> THEN <<>> ELSE <<word>>) \o SplitFrom(s, i + 1, <<>>)
         ELSE SplitFrom(s, i + 1, Append(word, s[i]))

Split(s) == SplitFrom(s, 1, <<>>)

\* f"{document_id}_{i}"
FragId(document_id, i) == document_id \o <<"_">> \o ToStr(i)

(***************************************************************************)
(* Python dicts keep insertion order: a dict is a sequence of entries      *)
(* [key, ...] with distinct keys.                                          *)
(***************************************************************************)
DictKeys(dict) == {dict[i].key : i \in 1..Len(dict)}
DictHas(dict, k) == \E i \in 1..Len(dict) : dict[i].key = k
DictGet(dict, k) == dict[CHOOSE i \in 1..Len(dict) : dict[i].key = k]

\* dict[entry.key] = entry: in place when the key is there, else at the end
DictPut(dict, entry) ==
    IF DictHas(dict, entry.key)
    THEN [i \in 1..Len(dict) |-> IF dict[i].key = entry.key THEN entry ELSE dict[i]]
    ELSE Append(dict, entry)

\* del dict[k]
DictDel(dict, k) == SelectSeq(dict, LAMBDA e : e.key # k)

\* list.remove(x): the first occurrence only
RECURSIVE ListRemove(_, _)
ListRemove(list, x) ==
    IF list = <<>> THEN <<>>
    ELSE IF Head(list) = x THEN Tail(list)
    ELSE <<Head(list)>> \o ListRemove(Tail(list), x)

InList(list, x) == \E i \in 1..Len(list) : list[i] = x

\* sorted(pairs, key=score, reverse=True): stable, highest score first
RECURSIVE InsertDesc(_, _)
InsertDesc(sorted, e) ==
    IF sorted = <<>> THEN <<e>>
    ELSE IF QLess(Head(sorted).score, e.score)
         THEN <<e>> \o sorted
         ELSE <<Head(sorted)>> \o InsertDesc(Tail(sorted), e)

RECURSIVE SortDescFrom(_, _, _)
SortDescFrom(pairs, i, acc) ==
    IF i > Len(pairs) THEN acc
    ELSE SortDescFrom(pairs, i + 1, InsertDesc(acc, pairs[i]))

SortDesc(pairs) == SortDescFrom(pairs, 1, <<>>)

\* max(score for _, score in pairs), pairs non-empty
RECURSIVE MaxScoreFrom(_, _, _)
MaxScoreFrom(pairs, i, best) ==
    IF i > Len(pairs) THEN best
    ELSE MaxScoreFrom(pairs, i + 1,
                      IF QLess(best, pairs[i].score) THEN pairs[i].score ELSE best)

MaxScore(pairs) == MaxScoreFrom(pairs, 2, pairs[1].score)

\* list[:n]
Take(list, n) == SubSeq(list, 1, Min(n, Len(list)))

(***************************************************************************)
(* The inputs the operations are called with.                              *)
(***************************************************************************)
\* document ids; "D1" is a string prefix of "D10"
DocIds == {<<"D", "1">>, <<"D", "1", "0">>}

\* document_id = None
None == <<>>

\* fragment texts
Texts == {<<"a", "b">>, <<"B", " ", "c">>}

\* queries
Queries == {<<"b", " ", "a">>, <<"C">>}

\* the chunk lists handed to add_documents: [{"text": t, "page": p}, ...]
ChunkLists ==
    UNION {[1..n -> [text : Texts, page : {1}]] : n \in 0..MaxChunks}

TopKs == 1..MaxTopK

(***************************************************************************)
(* The Embedder (SentenceTransformer.encode followed by L2 normalisation): *)
(* a deterministic map from a text to a unit vector.  The unit vectors are *)
(* the directions 0..NDirs-1 of the plane, 45 degrees apart; the inner     *)
(* product of two of them is the cosine of their angle, in tenths.         *)
(***************************************************************************)
CosTab == <<10, 7, 0, -7, -10, -7, 0, 7>>
NDirs == Len(CosTab)

Alphabet == <<" ", "a", "b", "c", "A", "B", "C">>
Code(c) == CHOOSE i \in 1..Len(Alphabet) : Alphabet[i] = c

RECURSIVE CodeSum(_)
CodeSum(text) == IF text = <<>> THEN 0 ELSE Code(Head(text)) + CodeSum(Tail(text))

\* encode(text) / norm(encode(text))
Embed(text) == CodeSum(text) % NDirs

\* np.dot of two unit vectors
InnerProduct(u, v) == Q(CosTab[((u - v + NDirs) % NDirs) + 1], 10)

(***************************************************************************)
(* faiss.IndexFlatIP: the vectors in insertion order.                      *)
(***************************************************************************)
\* index.add(embeddings)
IndexAdd(index, embeddings) == index \o embeddings

\* index.search(q, k): the k best positions (0-based) by inner product,
\* highest first, ties in insertion order
IndexSearch(index, q, k) ==
    Take(SortDesc([i \in 1..Len(index) |->
                      [idx |-> i - 1, score |-> InnerProduct(q, index[i])]]), k)

(***************************************************************************)
(* RAGService state.                                                       *)
(***************************************************************************)
VARIABLES
    initialized,          \* self.initialized
    vector_index,         \* self.vector_index: the stored unit vectors
    documents_metadata,   \* self.documents_metadata: dict id -> text, metadata
    doc_ids_list,         \* self.doc_ids_list
    call,                 \* the call that ran last, with what it observed
    result                \* what that call returned

ragVars == <<initialized, vector_index, documents_metadata, doc_ids_list, call, result>>

ntotal == Len(vector_index)

Call(op, document_id) ==
    [op |-> op, document_id |-> document_id, query |-> <<>>, top_k |-> 0,
     use_rrf |-> TRUE,
     removed |-> 0,          \* delete_document: len(doc_ids)
     encode_fails |-> FALSE, \* a search: embeddings_model.encode raised
     semantic_k |-> 0,       \* hybrid_search: the k its vector_search gave index.search
     lexical_k |-> 0]        \* hybrid_search: the top_k it gave keyword_search

\* a value a search returns: the list, or the exception it raised
Returned(list) == [raised |-> "none", list |-> list]
Raised(exc) == [raised |-> exc, list |-> <<>>]

(***************************************************************************)
(* RAGService.add_documents                                                *)
(***************************************************************************)
\* one turn of the loop that stores text and metadata
StoreOneUnguarded(st, doc_id, text, metadata) ==
    [md  |-> DictPut(st.md, [key |-> doc_id, text |-> text, metadata |-> metadata]),
     ids |-> Append(st.ids, doc_id)]

StoreOne(st, doc_id, text, metadata) ==
    [md  |-> DictPut(st.md, [key |-> doc_id, text |-> text, metadata |-> metadata]),
     ids |-> IF InList(st.ids, doc_id) THEN st.ids ELSE Append(st.ids, doc_id)]

RECURSIVE StoreFrom(_, _, _, _, _)
StoreFrom(st, ids, texts, metadatas, i) ==
    IF i > Len(ids) THEN st
    ELSE StoreFrom(StoreOne(st, ids[i], texts[i], metadatas[i]),
                   ids, texts, metadatas, i + 1)

ChunkIds(chunks, document_id) ==
    [i \in 1..Len(chunks) |-> FragId(document_id, i - 1)]

ChunkMetadatas(chunks, document_id) ==
    [i \in 1..Len(chunks) |->
        [document_id |-> document_id, page |-> chunks[i].page,
         chunk_index |-> i - 1, text_length |-> Len(chunks[i].text)]]

\* the embeddings add_documents appends for the chunks
ChunkEmbeddings(chunks) == [i \in 1..Len(chunks) |-> Embed(chunks[i].text)]

\* some fragment of the document is in the lookup
IsIngested(document_id) ==
    \E i \in 1..Len(documents_metadata) :
        documents_metadata[i].metadata.document_id = document_id

add_documents(chunks, document_id) ==
    /\ ntotal + Len(chunks) <= MaxIndex
    /\ LET ids == ChunkIds(chunks, document_id)
           texts == [i \in 1..Len(chunks) |-> chunks[i].text]
           metadatas == ChunkMetadatas(chunks, document_id)
           st == StoreFrom([md |-> documents_metadata, ids |-> doc_ids_list],
                           ids, texts, metadatas, 1)
       IN  /\ initialized' = TRUE
           /\ documents_metadata' = st.md
           /\ doc_ids_list' = st.ids
           /\ vector_index' = IndexAdd(vector_index, ChunkEmbeddings(chunks))
           /\ call' = Call("add_documents", document_id)
           /\ result' = Returned(<<>>)

(***************************************************************************)
(* RAGService.delete_document                                              *)
(***************************************************************************)
\* doc_ids = [doc_id for doc_id in self.doc_ids_list if doc_id.startswith(document_id)]
DocIdsOf(list, document_id) ==
    SelectSeq(list, LAMBDA doc_id : StartsWith(doc_id, document_id))

RemoveOneKeepLookup(st, doc_id) ==
    [md  |-> st.md,
     ids |-> IF InList(st.ids, doc_id) THEN ListRemove(st.ids, doc_id) ELSE st.ids]

RemoveOne(st, doc_id) ==
    [md  |-> IF DictHas(st.md, doc_id) THEN DictDel(st.md, doc_id) ELSE st.md,
     ids |-> IF InList(st.ids, doc_id) THEN ListRemove(st.ids, doc_id) ELSE st.ids]

RECURSIVE RemoveFrom(_, _, _)
RemoveFrom(st, doc_ids, i) ==
    IF i > Len(doc_ids) THEN st
    ELSE RemoveFrom(RemoveOne(st, doc_ids[i]), doc_ids, i + 1)

delete_document(document_id) ==
    LET doc_ids == DocIdsOf(doc_ids_list, document_id)
        st == RemoveFrom([md |-> documents_metadata, ids |-> doc_ids_list], doc_ids, 1)
    IN  /\ initialized' = TRUE
        /\ documents_metadata' = st.md
        /\ doc_ids_list' = st.ids
        /\ UNCHANGED vector_index
        /\ call' = [Call("delete_document", document_id) EXCEPT
                       !.removed = Len(doc_ids)]
        /\ result' = Returned(<<>>)

(***************************************************************************)
(* RAGService.get_document_chunks                                          *)
(***************************************************************************)
\* what the call returns for the lookup md: the entries whose id starts with
\* document_id and whose metadata names document_id, in lookup order
get_document_chunks(md, document_id) ==
    LET found == SelectSeq(md, LAMBDA data :
                     /\ StartsWith(data.key, document_id)
                     /\ data.metadata.document_id = document_id)
    IN  [i \in 1..Len(found) |->
            [id |-> found[i].key, text |-> found[i].text, metadata |-> found[i].metadata]]

(***************************************************************************)
(* RAGService.initialize                                                   *)
(***************************************************************************)
\* the index after initialize(): untouched when already initialized, else a
\* new empty IndexFlatIP
InitializedIndex == IF initialized THEN vector_index ELSE <<>>

initialize ==
    /\ initialized' = TRUE
    /\ vector_index' = InitializedIndex
    /\ UNCHANGED <<documents_metadata, doc_ids_list>>
    /\ call' = Call("initialize", None)
    /\ result' = Returned(<<>>)

(***************************************************************************)
(* RAGService.vector_search                                                *)
(***************************************************************************)
\* the loop that maps FAISS positions to ids; a position beyond the id list
\* is skipped
RECURSIVE MapHits(_, _, _)
MapHits(hits, list, i) ==
    IF i > Len(hits) THEN <<>>
    ELSE (IF hits[i].idx < Len(list)
          THEN <<[key |-> list[hits[i].idx + 1], score |-> hits[i].score]>>
          ELSE <<>>) \o MapHits(hits, list, i + 1)

\* k = min(top_k * 10, self.vector_index.ntotal)
SearchK(top_k) == Min(top_k * 10, Len(InitializedIndex))

\* document_id is accepted and not used
vector_search(query, top_k, document_id) ==
    LET query_embedding == Embed(query)
        k == SearchK(top_k)
        hits == IndexSearch(InitializedIndex, query_embedding, k)
    IN  MapHits(hits, doc_ids_list, 1)

(***************************************************************************)
(* RAGService.keyword_search                                               *)
(***************************************************************************)
\* the score of one text: 1 per query term found in it, 0.5 more when the
\* term stands between blanks
RECURSIVE TermScore(_, _, _)
TermScore(query_terms, text, i) ==
    IF i > Len(query_terms) THEN QZero
    ELSE QAdd(IF Contains(text, query_terms[i])
              THEN IF Contains(<<" ">> \o text \o <<" ">>,
                               <<" ">> \o query_terms[i] \o <<" ">>)
                   THEN Q(3, 2) ELSE QOne
              ELSE QZero,
              TermScore(query_terms, text, i + 1))

\* the loop over documents_metadata.items()
RECURSIVE ScoreEntries(_, _, _, _)
ScoreEntries(md, query_terms, document_id, i) ==
    IF i > Len(md) THEN <<>>
    ELSE LET score == TermScore(query_terms, Lower(md[i].text), 1)
         IN  (IF document_id # None /\ ~StartsWith(md[i].key, document_id)
              THEN <<>>
              ELSE IF QLess(QZero, score)
                   THEN <<[key |-> md[i].key, score |-> score]>>
                   ELSE <<>>) \o ScoreEntries(md, query_terms, document_id, i + 1)

\* divide every score by max_score
Normalized(pairs, max_score) ==
    [i \in 1..Len(pairs) |->
        [key |-> pairs[i].key, score |-> QDiv(pairs[i].score, max_score)]]

keyword_search_unsorted(query, top_k, document_id) ==
    LET query_terms == Split(Lower(query))
        scored_results == ScoreEntries(documents_metadata, query_terms, document_id, 1)
    IN  IF scored_results # <<>>
        THEN Take(Normalized(scored_results, MaxScore(scored_results)), top_k)
        ELSE Take(scored_results, top_k)

keyword_search(query, top_k, document_id) ==
    LET query_terms == Split(Lower(query))
        scored_results == ScoreEntries(documents_metadata, query_terms, document_id, 1)
    IN  IF scored_results # <<>>
        THEN Take(SortDesc(Normalized(scored_results, MaxScore(scored_results))), top_k)
        ELSE Take(scored_results, top_k)

(***************************************************************************)
(* RAGService.reciprocal_rank_fusion and RAGService._linear_fusion         *)
(***************************************************************************)
\* scores[key] += delta on a defaultdict(float)
DictAddScore(scores, key, delta) ==
    IF DictHas(scores, key)
    THEN [i \in 1..Len(scores) |->
            IF scores[i].key = key
            THEN [key |-> key, score |-> QAdd(scores[i].score, delta)]
            ELSE scores[i]]
    ELSE Append(scores, [key |-> key, score |-> QAdd(QZero, delta)])

RankContributionFromOne(k, rank) == Q(1, k + rank)

\* 1 / (k + rank + 1), rank counted from 0
RankContribution(k, rank) == Q(1, k + rank + 1)

RECURSIVE AddRanks(_, _, _, _)
AddRanks(scores, results, k, i) ==
    IF i > Len(results) THEN scores
    ELSE AddRanks(DictAddScore(scores, results[i].key, RankContribution(k, i - 1)),
                  results, k, i + 1)

SortAsc(pairs) ==
    LET sorted == SortDesc(pairs)
    IN  [i \in 1..Len(sorted) |-> sorted[Len(sorted) + 1 - i]]

rrf_combined_ascending(vector_results, keyword_results, k) ==
    SortAsc(AddRanks(AddRanks(<<>>, vector_results, k, 1), keyword_results, k, 1))

\* combined = sorted(scores.items(), key=lambda x: x[1], reverse=True)
rrf_combined(vector_results, keyword_results, k) ==
    SortDesc(AddRanks(AddRanks(<<>>, vector_results, k, 1), keyword_results, k, 1))

reciprocal_rank_fusion(vector_results, keyword_results, k) ==
    LET combined == rrf_combined(vector_results, keyword_results, k)
    IN  IF combined # <<>>
        THEN Returned(Normalized(combined, MaxScore(combined)))
        ELSE Returned(combined)

RECURSIVE AddWeighted(_, _, _, _)
AddWeighted(scores, results, weight, i) ==
    IF i > Len(results) THEN scores
    ELSE AddWeighted(DictAddScore(scores, results[i].key, QMul(results[i].score, weight)),
                     results, weight, i + 1)

linear_combined(vector_results, keyword_results) ==
    SortDesc(AddWeighted(AddWeighted(<<>>, vector_results, hybrid_weight_vector, 1),
                         keyword_results, hybrid_weight_keyword, 1))

\* score / max_score raises ZeroDivisionError when max_score is 0
linear_fusion(vector_results, keyword_results) ==
    LET combined == linear_combined(vector_results, keyword_results)
    IN  IF combined # <<>>
        THEN IF MaxScore(combined) = QZero
             THEN Raised("ZeroDivisionError")
             ELSE Returned(Normalized(combined, MaxScore(combined)))
        ELSE Returned(combined)

(***************************************************************************)
(* RAGService.hybrid_search                                                *)
(***************************************************************************)
\* the records of the ids of combined[:top_k] that are in the lookup
RECURSIVE Resolve(_, _, _)
Resolve(pairs, md, i) ==
    IF i > Len(pairs) THEN <<>>
    ELSE (IF DictHas(md, pairs[i].key)
          THEN <<[id |-> pairs[i].key,
                  text |-> DictGet(md, pairs[i].key).text,
                  metadata |-> DictGet(md, pairs[i].key).metadata,
                  score |-> pairs[i].score]>>
          ELSE <<>>) \o Resolve(pairs, md, i + 1)

\* the top_k hybrid_search hands to both sub-searches
SubSearchTopK(top_k) == top_k * 2

\* encode_fails: embeddings_model.encode raises inside vector_search; nothing
\* in hybrid_search or vector_search catches it
hybrid_search(query, top_k, document_id, use_rrf, encode_fails) ==
    LET vector_results == vector_search(query, SubSearchTopK(top_k), document_id)
        keyword_results == keyword_search(query, SubSearchTopK(top_k), document_id)
        combined == IF use_rrf
                    THEN reciprocal_rank_fusion(vector_results, keyword_results, rrf_k)
                    ELSE linear_fusion(vector_results, keyword_results)
    IN  IF encode_fails THEN Raised("EncoderError")
        ELSE IF combined.raised # "none" THEN combined
        ELSE Returned(Resolve(Take(combined.list, top_k), documents_metadata, 1))

(***************************************************************************)
(* The searches as calls on the service.                                   *)
(***************************************************************************)
SearchCall(op, query, top_k, document_id, use_rrf) ==
    [Call(op, document_id) EXCEPT !.query = query, !.top_k = top_k, !.use_rrf = use_rrf]

DoSearch(search_call, returned) ==
    /\ initialized' = TRUE
    /\ vector_index' = InitializedIndex
    /\ UNCHANGED <<documents_metadata, doc_ids_list>>
    /\ call' = search_call
    /\ result' = returned

call_vector_search(query, top_k, document_id, encode_fails) ==
    DoSearch([SearchCall("vector_search", query, top_k, document_id, TRUE)
                 EXCEPT !.encode_fails = encode_fails],
             IF encode_fails THEN Raised("EncoderError")
             ELSE Returned(vector_search(query, top_k, document_id)))

call_keyword_search(query, top_k, document_id) ==
    DoSearch(SearchCall("keyword_search", query, top_k, document_id, TRUE),
             Returned(keyword_search(query, top_k, document_id)))

call_hybrid_search(query, top_k, document_id, use_rrf, encode_fails) ==
    DoSearch([SearchCall("hybrid_search", query, top_k, document_id, use_rrf)
                 EXCEPT !.encode_fails = encode_fails,
                        !.semantic_k = SearchK(SubSearchTopK(top_k)),
                        !.lexical_k = SubSearchTopK(top_k)],
             hybrid_search(query, top_k, document_id, use_rrf, encode_fails))

(***************************************************************************)
(* RAPTORService: cluster_chunks, summarize_chunk_group, build_raptor_tree *)
(***************************************************************************)
VARIABLES
    llm_client,        \* self.llm_client is set (OPENAI_API_KEY configured)
    chunks_in,         \* the chunks argument of build_raptor_tree
    max_depth,         \* its max_depth argument
    min_chunks,        \* its min_chunks argument
    tree,              \* the tree being built
    current_chunks,    \* the texts of the level being clustered
    current_level,     \* the level being built
    raptor_pc,         \* "idle", "start", "loop", "done"
    raptor_call,       \* the last call made on the service, with its arguments
    raptor_result      \* what retrieve_from_raptor or get_raptor_summary returned

rapVars == <<llm_client, chunks_in, max_depth, min_chunks, tree,
             current_chunks, current_level, raptor_pc, raptor_call, raptor_result>>

\* fragment texts given to the builder, and what the LLM answers
FragmentTexts == {<<"a">>, <<"b">>}
LLMSummary == <<"c">>

\* the fragment lists given to the builder: up to MaxFragments texts that
\* repeat a pattern of up to MaxPeriod texts
FragmentLists ==
    {[i \in 1..n |-> pattern[((i - 1) % Len(pattern)) + 1]] :
        n \in 0..MaxFragments,
        pattern \in UNION {[1..m -> FragmentTexts] : m \in 1..MaxPeriod}}

\* f"chunk_{i}", f"summary_level{level}_cluster{idx}", f"level_{level}"
ChunkId(i) == <<"chunk_">> \o ToStr(i)
SummaryId(level, idx) == <<"summary_level">> \o ToStr(level) \o <<"_cluster">> \o ToStr(idx)
LevelKey(level) == <<"level_">> \o ToStr(level)

\* " ".join(texts)
RECURSIVE Join(_)
Join(texts) ==
    IF texts = <<>> THEN <<>>
    ELSE IF Len(texts) = 1 THEN texts[1]
    ELSE texts[1] \o <<" ">> \o Join(Tail(texts))

\* clusters[label].append(i) for i, label in enumerate(cluster_labels)
RECURSIVE GroupFrom(_, _, _)
GroupFrom(clusters, cluster_labels, i) ==
    IF i > Len(cluster_labels) THEN clusters
    ELSE GroupFrom(
             IF DictHas(clusters, cluster_labels[i])
             THEN [j \in 1..Len(clusters) |->
                     IF clusters[j].key = cluster_labels[i]
                     THEN [key |-> clusters[j].key,
                           members |-> Append(clusters[j].members, i - 1)]
                     ELSE clusters[j]]
             ELSE Append(clusters, [key |-> cluster_labels[i], members |-> <<i - 1>>]),
             cluster_labels, i + 1)

\* list(clusters.values())
GroupByLabel(cluster_labels) ==
    LET clusters == GroupFrom(<<>>, cluster_labels, 1)
    IN  [j \in 1..Len(clusters) |-> clusters[j].members]

\* KMeans(n_clusters).fit_predict on the embeddings: a label per chunk.  Equal
\* vectors get equal labels, and the labels in use number n_clusters, or the
\* number of distinct vectors when that is smaller.
KMeansLabels(chunks, n_clusters) ==
    LET points == {Embed(chunks[i]) : i \in 1..Len(chunks)}
        label_of == {f \in [points -> 0..(n_clusters - 1)] :
                        Cardinality({f[x] : x \in points})
                            = Min(n_clusters, Cardinality(points))}
    IN  {[i \in 1..Len(chunks) |-> f[Embed(chunks[i])]] : f \in label_of}

\* the results cluster_chunks can return: lists of lists of 0-based indices
cluster_chunks(chunks, n_clusters) ==
    IF Len(chunks) < n_clusters
    THEN {[i \in 1..Len(chunks) |-> <<i - 1>>]}
    ELSE {GroupByLabel(labels) : labels \in KMeansLabels(chunks, n_clusters)}

summarize_chunk_group_all(chunks, llm_fails) ==
    IF ~llm_client \/ llm_fails THEN Join(chunks) ELSE LLMSummary

\* what summarize_chunk_group returns; llm_fails: the completion call raised
summarize_chunk_group(chunks, llm_fails) ==
    IF ~llm_client THEN Join(Take(chunks, 3))
    ELSE IF llm_fails THEN Join(Take(chunks, 2))
    ELSE LLMSummary

EmptyTree == [nodes |-> <<>>, summaries |-> <<>>, clusters |-> <<>>, depth |-> 0]

NodeChildrenFromOne(level, cluster_indices) ==
    [p \in 1..Len(cluster_indices) |->
        IF level = 1 THEN ChunkId(p)
        ELSE SummaryId(level - 1, cluster_indices[p] + 1)]

\* the children list of a new node, as the comprehension computes it:
\* for i, c in enumerate(cluster_indices)
NodeChildren(level, cluster_indices) ==
    [p \in 1..Len(cluster_indices) |->
        IF level = 1 THEN ChunkId(p - 1)
        ELSE SummaryId(level - 1, cluster_indices[p])]

\* the node and the summary made for cluster cluster_idx (0-based)
ClusterNode(level, clusters, cluster_idx, llm_fails) ==
    LET cluster_indices == clusters[cluster_idx + 1]
        cluster_texts == [p \in 1..Len(cluster_indices) |->
                             current_chunks[cluster_indices[p] + 1]]
    IN  [id |-> SummaryId(level, cluster_idx),
         text |-> summarize_chunk_group(cluster_texts, llm_fails),
         level |-> level,
         children |-> NodeChildren(level, cluster_indices)]

BuildLevel0Reversed ==
    /\ raptor_pc = "start"
    /\ tree' = [EmptyTree EXCEPT
                   !.nodes = [i \in 1..Len(chunks_in) |->
                                 [id |-> ChunkId(i - 1),
                                  text |-> chunks_in[Len(chunks_in) + 1 - i],
                                  level |-> 0]]]
    /\ current_chunks' = chunks_in
    /\ current_level' = 1
    /\ raptor_pc' = "loop"
    /\ UNCHANGED <<raptor_call, raptor_result, llm_client, chunks_in, max_depth, min_chunks>>

\* lines 150-164: the tree with level 0, before the loop
BuildLevel0 ==
    /\ raptor_pc = "start"
    /\ tree' = [EmptyTree EXCEPT
                   !.nodes = [i \in 1..Len(chunks_in) |->
                                 [id |-> ChunkId(i - 1), text |-> chunks_in[i], level |-> 0]],
                   !.summaries = <<[key |-> LevelKey(0),
                                    value |-> [i \in 1..Len(chunks_in) |->
                                                  [key |-> ChunkId(i - 1),
                                                   text |-> chunks_in[i]]]]>>]
    /\ current_chunks' = chunks_in
    /\ current_level' = 1
    /\ raptor_pc' = "loop"
    /\ UNCHANGED <<raptor_call, raptor_result, llm_client, chunks_in, max_depth, min_chunks>>

LoopConditionOffByOne ==
    current_level <= max_depth + 1 /\ Len(current_chunks) >= min_chunks

LoopConditionDepthOnly == current_level <= max_depth /\ Len(current_chunks) >= 1

\* while current_level <= max_depth and len(current_chunks) >= min_chunks
LoopCondition == current_level <= max_depth /\ Len(current_chunks) >= min_chunks

\* lines 166-196: one iteration of the while loop
BuildIteration ==
    /\ raptor_pc = "loop"
    /\ LoopCondition
    /\ LET n_clusters == Max(2, Len(current_chunks) \div min_chunks)
       IN  \E clusters \in cluster_chunks(current_chunks, n_clusters) :
           \E llm_fails \in [1..Len(clusters) -> IF llm_client THEN BOOLEAN ELSE {FALSE}] :
               LET new_nodes == [c \in 1..Len(clusters) |->
                                    ClusterNode(current_level, clusters, c - 1, llm_fails[c])]
                   summaries == [c \in 1..Len(clusters) |->
                                    [key |-> new_nodes[c].id, text |-> new_nodes[c].text]]
               IN  /\ tree' = [tree EXCEPT
                                  !.nodes = tree.nodes \o new_nodes,
                                  !.clusters = Append(tree.clusters,
                                                      [key |-> LevelKey(current_level),
                                                       value |-> clusters]),
                                  !.summaries = Append(tree.summaries,
                                                       [key |-> LevelKey(current_level),
                                                        value |-> summaries])]
                   /\ current_chunks' = [c \in 1..Len(summaries) |-> summaries[c].text]
                   /\ current_level' = current_level + 1
    /\ UNCHANGED <<raptor_call, raptor_result, llm_client, chunks_in, max_depth, min_chunks, raptor_pc>>

BuildFinishOffByOne ==
    /\ raptor_pc = "loop"
    /\ ~LoopCondition
    /\ tree' = [tree EXCEPT !.depth = current_level]
    /\ raptor_pc' = "done"
    /\ UNCHANGED <<raptor_call, raptor_result, llm_client, chunks_in, max_depth, min_chunks,
                   current_chunks, current_level>>

\* lines 198-200: the loop is left and depth is set
BuildFinish ==
    /\ raptor_pc = "loop"
    /\ ~LoopCondition
    /\ tree' = [tree EXCEPT !.depth = current_level - 1]
    /\ raptor_pc' = "done"
    /\ UNCHANGED <<raptor_call, raptor_result, llm_client, chunks_in, max_depth, min_chunks,
                   current_chunks, current_level>>

(***************************************************************************)
(* RAPTORService.retrieve_from_raptor and RAPTORService.get_raptor_summary *)
(***************************************************************************)
RaptorCall(op) ==
    [op |-> op, query |-> <<>>, top_k |-> 0, target_level |-> None, level |-> 0]
RaptorReturned(value) == [raised |-> "none", value |-> value]
RaptorRaised(exc) == [raised |-> exc, value |-> <<>>]

\* target_level: Optional[int], None or a one-element list holding the level
TargetLevels == {None} \cup {<<level>> : level \in 0..(MaxDepth + 1)}

\* lines 220-223: [target_level], or list(range(tree["depth"] + 1))
LevelsToSearch(t, target_level) ==
    IF target_level # None THEN target_level
    ELSE [i \in 1..(t.depth + 1) |-> i - 1]

\* cosine_similarity of the encoded query and one encoded summary text
CosineSimilarity(query, text) == InnerProduct(Embed(query), Embed(text))

\* lines 238-259: the results one level adds to all_results
LevelResults(t, query, level) ==
    LET level_summaries == DictGet(t.summaries, LevelKey(level)).value
    IN  [i \in 1..Len(level_summaries) |->
            [id |-> level_summaries[i].key,
             text |-> level_summaries[i].text,
             level |-> level,
             score |-> CosineSimilarity(query, level_summaries[i].text),
             type |-> IF level > 0 THEN "summary" ELSE "chunk"]]

\* lines 233-259: the loop over levels_to_search.  A level whose key is
\* missing is skipped; for a level whose dict is empty, encode([]) hands
\* cosine_similarity an array without rows, which it rejects with ValueError
RECURSIVE SearchLevels(_, _, _, _, _)
SearchLevels(t, query, levels_to_search, i, all_results) ==
    IF i > Len(levels_to_search) THEN RaptorReturned(all_results)
    ELSE IF ~DictHas(t.summaries, LevelKey(levels_to_search[i]))
         THEN SearchLevels(t, query, levels_to_search, i + 1, all_results)
    ELSE IF DictGet(t.summaries, LevelKey(levels_to_search[i])).value = <<>>
         THEN RaptorRaised("ValueError")
    ELSE SearchLevels(t, query, levels_to_search, i + 1,
                      all_results \o LevelResults(t, query, levels_to_search[i]))

retrieve_from_raptor_unsorted(t, query, top_k, target_level) ==
    LET found == SearchLevels(t, query, LevelsToSearch(t, target_level), 1, <<>>)
    IN  IF found.raised # "none" THEN found
        ELSE RaptorReturned(Take(found.value, top_k))

\* lines 262-264: all_results.sort(score, reverse=True); all_results[:top_k]
retrieve_from_raptor(t, query, top_k, target_level) ==
    LET found == SearchLevels(t, query, LevelsToSearch(t, target_level), 1, <<>>)
    IN  IF found.raised # "none" THEN found
        ELSE RaptorReturned(Take(SortDesc(found.value), top_k))

\* "\n\n".join(texts)
RECURSIVE JoinParagraphs(_)
JoinParagraphs(texts) ==
    IF texts = <<>> THEN <<>>
    ELSE IF Len(texts) = 1 THEN texts[1]
    ELSE texts[1] \o <<"\n", "\n">> \o JoinParagraphs(Tail(texts))

get_raptor_summary_first(t, level) ==
    LET resolved == IF level = -1 THEN t.depth ELSE level
    IN  IF ~DictHas(t.summaries, LevelKey(resolved)) THEN <<>>
        ELSE LET summaries == DictGet(t.summaries, LevelKey(resolved)).value
             IN  IF summaries = <<>> THEN <<>> ELSE summaries[1].text

\* lines 277-294
get_raptor_summary(t, level) ==
    LET resolved == IF level = -1 THEN t.depth ELSE level
    IN  IF ~DictHas(t.summaries, LevelKey(resolved)) THEN <<>>
        ELSE LET summaries == DictGet(t.summaries, LevelKey(resolved)).value
             IN  IF summaries = <<>> THEN <<>>
                 ELSE IF Len(summaries) > 1
                      THEN JoinParagraphs([i \in 1..Len(summaries) |-> summaries[i].text])
                      ELSE summaries[1].text

\* one call of retrieve_from_raptor on the tree that was built
RetrieveFromRaptor ==
    /\ raptor_pc = "done"
    /\ raptor_call.op = "build_raptor_tree"
    /\ \E query \in Queries, top_k \in TopKs, target_level \in TargetLevels :
           /\ raptor_call' = [RaptorCall("retrieve_from_raptor") EXCEPT
                                 !.query = query, !.top_k = top_k,
                                 !.target_level = target_level]
           /\ raptor_result' = retrieve_from_raptor(tree, query, top_k, target_level)
    /\ UNCHANGED <<llm_client, chunks_in, max_depth, min_chunks, tree,
                   current_chunks, current_level, raptor_pc>>

\* one call of get_raptor_summary on the tree that was built
GetRaptorSummary ==
    /\ raptor_pc = "done"
    /\ raptor_call.op = "build_raptor_tree"
    /\ \E level \in (-1)..(MaxDepth + 1) :
           /\ raptor_call' = [RaptorCall("get_raptor_summary") EXCEPT !.level = level]
           /\ raptor_result' = RaptorReturned(get_raptor_summary(tree, level))
    /\ UNCHANGED <<llm_client, chunks_in, max_depth, min_chunks, tree,
                   current_chunks, current_level, raptor_pc>>

RaptorIdle ==
    /\ raptor_call = RaptorCall("__init__")
    /\ raptor_result = RaptorReturned(<<>>)
    /\ llm_client = FALSE
    /\ chunks_in = <<>>
    /\ max_depth = 0
    /\ min_chunks = 1
    /\ tree = EmptyTree
    /\ current_chunks = <<>>
    /\ current_level = 0
    /\ raptor_pc = "idle"

RaptorInit ==
    /\ raptor_call = RaptorCall("build_raptor_tree")
    /\ raptor_result = RaptorReturned(<<>>)
    /\ llm_client \in BOOLEAN
    /\ chunks_in \in FragmentLists
    /\ max_depth \in 0..MaxDepth
    /\ min_chunks \in 1..MaxMinChunks
    /\ tree = EmptyTree
    /\ current_chunks = <<>>
    /\ current_level = 0
    /\ raptor_pc = "start"

(***************************************************************************)
(* app/main.py: the upload, delete and reindex handlers and the background *)
(* tasks they schedule.  A handler is an async function without a          *)
(* suspension point, so it runs as one step of the event loop.  The tasks  *)
(* one request adds to its BackgroundTasks run one after the other once    *)
(* the response is sent; they are plain functions, which run on a worker   *)
(* thread, so the tasks of different requests run side by side, and side   *)
(* by side with the handlers of later requests.                            *)
(***************************************************************************)
VARIABLES
    persisted,      \* documents.json: a dict document id -> its metadata
    pdf_files,      \* the PDF files on disk: document id -> the chunks in the file
    raptor_files,   \* the ids d for which indexes/raptor_{d}.json exists
    used_ids,       \* the ids generate_document_id has produced
    jobs,           \* the BackgroundTasks that are running, one entry per request
    requests,       \* requests served so far
    delete_stack,   \* the activations of the DELETE handler, the outermost first
    background_tasks,   \* the BackgroundTasks of the DELETE request being served
    response        \* the DELETE request being served and the status it got

\* the part of the state the DELETE handler works on when it is followed
\* activation by activation
hdlVars == <<delete_stack, background_tasks, response>>

concVars == <<persisted, pdf_files, raptor_files, used_ids, jobs, requests, hdlVars>>

\* the ids generate_document_id produces: md5 digests, all of one length
UploadIds == {<<"D", "1">>, <<"D", "2">>}

\* the file uploaded under an id: the id is the digest of the file name and
\* the upload time, so one id names one file.  The pages of the file that
\* hold text, as index_document collects them.
UploadedPdf(document_id) ==
    IF document_id = <<"D", "1">>
    THEN <<[text |-> <<"a", "b">>, page |-> 1]>>
    ELSE [i \in 1..MaxChunks |->
             [text |-> IF i = 1 THEN <<"B", " ", "c">> ELSE <<"a", "b">>, page |-> 1]]

\* a dict as a function on its keys
Keys(f) == DOMAIN f
Put(f, k, v) == [x \in (DOMAIN f) \cup {k} |-> IF x = k THEN v ELSE f[x]]
Drop(f, k) == [x \in (DOMAIN f) \ {k} |-> f[x]]
EmptyDict == [x \in {} |-> 0]

Task(kind, document_id) == [kind |-> kind, document_id |-> document_id]

\* a request's BackgroundTasks once its response is sent: the first task is
\* the one running, pc is where it stands
Job(tasks) ==
    [tasks |-> tasks, pc |-> "start", chunks |-> <<>>, doc_ids |-> <<>>, docs |-> <<>>]

Schedule(js, tasks) == IF tasks = <<>> THEN js ELSE Append(js, Job(tasks))

\* the running task of job j returns: the next task of the job starts, or the
\* job is over
TaskDone(js, j) ==
    IF Len(js[j].tasks) = 1
    THEN [i \in 1..(Len(js) - 1) |-> IF i < j THEN js[i] ELSE js[i + 1]]
    ELSE [js EXCEPT ![j] = Job(Tail(js[j].tasks))]

\* the running task of job j raises: the tasks after it are not run
JobAborted(js, j) == [i \in 1..(Len(js) - 1) |-> IF i < j THEN js[i] ELSE js[i + 1]]

Running(j, kind, pc) ==
    /\ j \in 1..Len(jobs)
    /\ jobs[j].tasks[1].kind = kind
    /\ jobs[j].pc = pc

(***************************************************************************)
(* upload_document                                                         *)
(***************************************************************************)
upload_document(document_id, parent_id) ==
    /\ requests < MaxRequests
    /\ document_id \notin used_ids
    /\ used_ids' = used_ids \cup {document_id}
    /\ pdf_files' = Put(pdf_files, document_id, UploadedPdf(document_id))
    /\ persisted' = DictPut(persisted,
                            [key |-> document_id, parent_id |-> parent_id,
                             is_indexed |-> FALSE, chunk_count |-> 0])
    /\ jobs' = Schedule(jobs, <<Task("index_document", document_id)>>)
    /\ requests' = requests + 1
    /\ UNCHANGED <<raptor_files, ragVars>>

(***************************************************************************)
(* delete_document (the handler), with its recursion over the attachments  *)
(***************************************************************************)
get_documents_by_parent_first(docs, parent_id) ==
    LET found == SelectSeq(docs, LAMBDA doc : doc.parent_id = parent_id)
    IN  [i \in 1..Min(1, Len(found)) |-> found[i].key]

\* persistence.get_documents_by_parent: the ids whose parent_id is the given
\* id, in the order of documents.json
get_documents_by_parent(docs, parent_id) ==
    LET found == SelectSeq(docs, LAMBDA doc : doc.parent_id = parent_id)
    IN  [i \in 1..Len(found) |-> found[i].key]

\* the state the handler works on: the stores and the request's task list
RECURSIVE delete_rec(_, _)
RECURSIVE delete_each(_, _, _)

\* await delete_document(attachment.id, background_tasks) for each attachment
delete_each(st, attachments, i) ==
    IF i > Len(attachments) THEN st
    ELSE delete_each(delete_rec(st, attachments[i]), attachments, i + 1)

\* one activation of the handler.  An activation is started for the request's
\* document, which exists, or for an attachment just read from the store that
\* no earlier activation can have removed, so the 404 of line 113 is not
\* raised inside the recursion
delete_rec(st, document_id) ==
    IF ~DictHas(st.persisted, document_id) THEN st
    ELSE LET after == [persisted |-> DictDel(st.persisted, document_id),
                       pdf_files |-> Drop(st.pdf_files, document_id),
                       raptor_files |-> st.raptor_files \ {document_id},
                       tasks |-> Append(st.tasks, Task("delete_document", document_id))]
         IN  delete_each(after, get_documents_by_parent(after.persisted, document_id), 1)

handle_delete_document(document_id) ==
    /\ requests < MaxRequests
    /\ DictHas(persisted, document_id)
    /\ LET st == delete_rec([persisted |-> persisted, pdf_files |-> pdf_files,
                             raptor_files |-> raptor_files, tasks |-> <<>>], document_id)
       IN  /\ persisted' = st.persisted
           /\ pdf_files' = st.pdf_files
           /\ raptor_files' = st.raptor_files
           /\ jobs' = Schedule(jobs, st.tasks)
    /\ requests' = requests + 1
    /\ UNCHANGED <<used_ids, ragVars>>

(***************************************************************************)
(* delete_document (the handler), one activation at a time                 *)
(***************************************************************************)
Response(status, document_id) == [status |-> status, document_id |-> document_id]

\* the locals of one activation: document_id, doc, attachments and the
\* position of the for loop in attachments
Activation(document_id, doc, attachments) ==
    [document_id |-> document_id, doc |-> doc, attachments |-> attachments, i |-> 1]

\* the caller's for loop moves on to the next attachment
CallFrom(stack) ==
    IF stack = <<>> THEN stack
    ELSE [stack EXCEPT ![Len(stack)].i = stack[Len(stack)].i + 1]

\* lines 110-135 of an activation for a document that exists: the file, the
\* RAPTOR file and the metadata are removed, the index deletion is scheduled
\* and the attachments are read from the store as it now is
delete_body(document_id) ==
    /\ pdf_files' = Drop(pdf_files, document_id)
    /\ background_tasks' = Append(background_tasks, Task("delete_document", document_id))
    /\ raptor_files' = raptor_files \ {document_id}
    /\ persisted' = DictDel(persisted, document_id)
    /\ delete_stack' =
           Append(CallFrom(delete_stack),
                  Activation(document_id, DictGet(persisted, document_id),
                             get_documents_by_parent(DictDel(persisted, document_id),
                                                     document_id)))

\* a DELETE request arrives: the outermost activation; 404 for an unknown id
delete_request(document_id) ==
    /\ requests < MaxRequests
    /\ delete_stack = <<>>
    /\ requests' = requests + 1
    /\ IF DictHas(persisted, document_id)
       THEN /\ delete_body(document_id)
            /\ response' = Response(0, document_id)
       ELSE /\ response' = Response(404, document_id)
            /\ UNCHANGED <<persisted, pdf_files, raptor_files, delete_stack,
                           background_tasks>>
    /\ UNCHANGED <<used_ids, jobs, ragVars>>

\* line 137: await delete_document(attachment.id, background_tasks); the
\* HTTPException of an activation that finds no document ends the request
delete_attachment ==
    /\ delete_stack # <<>>
    /\ LET top == delete_stack[Len(delete_stack)]
       IN  /\ top.i <= Len(top.attachments)
           /\ IF DictHas(persisted, top.attachments[top.i])
              THEN /\ delete_body(top.attachments[top.i])
                   /\ UNCHANGED response
              ELSE /\ delete_stack' = <<>>
                   /\ background_tasks' = <<>>
                   /\ response' = Response(404, response.document_id)
                   /\ UNCHANGED <<persisted, pdf_files, raptor_files>>
    /\ UNCHANGED <<used_ids, jobs, requests, ragVars>>

\* line 139: an activation returns; when it is the outermost one the response
\* is sent and the tasks of the request start
delete_return ==
    /\ delete_stack # <<>>
    /\ delete_stack[Len(delete_stack)].i > Len(delete_stack[Len(delete_stack)].attachments)
    /\ delete_stack' = SubSeq(delete_stack, 1, Len(delete_stack) - 1)
    /\ IF Len(delete_stack) = 1
       THEN /\ response' = Response(200, response.document_id)
            /\ jobs' = Schedule(jobs, background_tasks)
            /\ background_tasks' = <<>>
       ELSE UNCHANGED <<response, jobs, background_tasks>>
    /\ UNCHANGED <<persisted, pdf_files, raptor_files, used_ids, requests, ragVars>>

(***************************************************************************)
(* reindex_document                                                        *)
(***************************************************************************)
reindex_document(document_id) ==
    /\ requests < MaxRequests
    /\ DictHas(persisted, document_id)
    /\ document_id \in Keys(pdf_files)
    /\ LET doc_ids == DocIdsOf(doc_ids_list, document_id)
           st == RemoveFrom([md |-> documents_metadata, ids |-> doc_ids_list], doc_ids, 1)
       IN  /\ documents_metadata' = st.md
           /\ doc_ids_list' = st.ids
    /\ raptor_files' = raptor_files \ {document_id}
    /\ jobs' = Schedule(jobs, <<Task("index_document", document_id)>>)
    /\ requests' = requests + 1
    /\ UNCHANGED <<persisted, pdf_files, used_ids,
                   initialized, vector_index, call, result>>

(***************************************************************************)
(* index_document, step by step on its worker thread                       *)
(***************************************************************************)
\* lines 235-249: the text is read from the file; a missing file raises
index_extract(j) ==
    /\ Running(j, "index_document", "start")
    /\ LET d == jobs[j].tasks[1].document_id
       IN  IF d \in Keys(pdf_files)
           THEN jobs' = [jobs EXCEPT ![j].pc = "call_add", ![j].chunks = pdf_files[d]]
           ELSE jobs' = JobAborted(jobs, j)
    /\ UNCHANGED <<persisted, pdf_files, raptor_files, used_ids, requests, ragVars>>

\* rag_service.add_documents, lines 63-81: ids, texts, metadatas, embeddings
add_encode(j) ==
    /\ Running(j, "index_document", "call_add")
    /\ jobs' = [jobs EXCEPT ![j].pc = "add_store"]
    /\ UNCHANGED <<persisted, pdf_files, raptor_files, used_ids, requests, ragVars>>

\* lines 84-90: the loop that fills the lookup and the id list
add_store(j) ==
    /\ Running(j, "index_document", "add_store")
    /\ LET d == jobs[j].tasks[1].document_id
           chunks == jobs[j].chunks
           st == StoreFrom([md |-> documents_metadata, ids |-> doc_ids_list],
                           ChunkIds(chunks, d),
                           [i \in 1..Len(chunks) |-> chunks[i].text],
                           ChunkMetadatas(chunks, d), 1)
       IN  /\ documents_metadata' = st.md
           /\ doc_ids_list' = st.ids
    /\ jobs' = [jobs EXCEPT ![j].pc = "add_index"]
    /\ UNCHANGED <<persisted, pdf_files, raptor_files, used_ids, requests,
                   initialized, vector_index, call, result>>

\* line 93: the embeddings go into the index, and add_documents returns
add_index(j) ==
    /\ Running(j, "index_document", "add_index")
    /\ vector_index' = IndexAdd(vector_index, ChunkEmbeddings(jobs[j].chunks))
    /\ jobs' = [jobs EXCEPT ![j].pc = "raptor"]
    /\ UNCHANGED <<persisted, pdf_files, raptor_files, used_ids, requests,
                   initialized, documents_metadata, doc_ids_list, call, result>>

\* raptor_service.build_and_index_document: the tree is built and saved
index_raptor(j) ==
    /\ Running(j, "index_document", "raptor")
    /\ raptor_files' = raptor_files \cup {jobs[j].tasks[1].document_id}
    /\ jobs' = [jobs EXCEPT ![j].pc = "set_indexed"]
    /\ UNCHANGED <<persisted, pdf_files, used_ids, requests, ragVars>>

\* persistence.set_document_indexed, through update_document.  The task runs
\* on a worker thread while the event loop serves requests, and nothing locks
\* documents.json: what the task loaded is what it writes back.
\* docs = self._load_json(self.docs_file)
set_indexed_load(j) ==
    /\ Running(j, "index_document", "set_indexed")
    /\ jobs' = [jobs EXCEPT ![j].pc = "save_indexed", ![j].docs = persisted]
    /\ UNCHANGED <<persisted, pdf_files, raptor_files, used_ids, requests, ragVars>>

\* docs[document_id].update(updates); self._save_json(self.docs_file, docs);
\* nothing is written for an id that was not in what was loaded
set_indexed_save(j) ==
    /\ Running(j, "index_document", "save_indexed")
    /\ LET d == jobs[j].tasks[1].document_id
           docs == jobs[j].docs
       IN  persisted' = IF DictHas(docs, d)
                        THEN DictPut(docs,
                                     [DictGet(docs, d) EXCEPT
                                         !.is_indexed = TRUE,
                                         !.chunk_count = Len(jobs[j].chunks)])
                        ELSE persisted
    /\ jobs' = TaskDone(jobs, j)
    /\ UNCHANGED <<pdf_files, raptor_files, used_ids, requests, ragVars>>

(***************************************************************************)
(* rag_service.delete_document as a background task                        *)
(***************************************************************************)
\* line 269: the ids of the document are collected
delete_select(j) ==
    /\ Running(j, "delete_document", "start")
    /\ LET doc_ids == DocIdsOf(doc_ids_list, jobs[j].tasks[1].document_id)
       IN  jobs' = IF doc_ids = <<>> THEN TaskDone(jobs, j)
                   ELSE [jobs EXCEPT ![j].pc = "del_remove", ![j].doc_ids = doc_ids]
    /\ UNCHANGED <<persisted, pdf_files, raptor_files, used_ids, requests, ragVars>>

\* lines 277-281: they are removed from the lookup and the id list
delete_remove(j) ==
    /\ Running(j, "delete_document", "del_remove")
    /\ LET st == RemoveFrom([md |-> documents_metadata, ids |-> doc_ids_list],
                            jobs[j].doc_ids, 1)
       IN  /\ documents_metadata' = st.md
           /\ doc_ids_list' = st.ids
    /\ jobs' = TaskDone(jobs, j)
    /\ UNCHANGED <<persisted, pdf_files, raptor_files, used_ids, requests,
                   initialized, vector_index, call, result>>

ConcIdle ==
    /\ persisted = <<>>
    /\ pdf_files = EmptyDict
    /\ raptor_files = {}
    /\ used_ids = {}
    /\ jobs = <<>>
    /\ requests = 0
    /\ delete_stack = <<>>
    /\ background_tasks = <<>>
    /\ response = Response(0, None)

(***************************************************************************)
(* The fusion functions on their own: two ranked lists in, one out.        *)
(***************************************************************************)
VARIABLES
    in_vector_results,    \* the vector_results argument
    in_keyword_results,   \* the keyword_results argument
    fused,                \* what the fusion function returned
    fusion                \* "input", then the function that ran: "rrf" or "linear"

fusVars == <<in_vector_results, in_keyword_results, fused, fusion>>

vars == <<ragVars, fusVars, rapVars, concVars>>

\* the fragment ids the lists rank
FusionIds == {FragId(<<"D", "1">>, 0), FragId(<<"D", "1">>, 1), FragId(<<"D", "1", "0">>, 0)}

\* cosine similarities, in [-1, 1]
SemanticScores == {InnerProduct(0, v) : v \in 0..(NDirs - 1)}

\* normalised term-overlap scores, in (0, 1]
LexicalScores == {Q(1, 3), Q(2, 3), QOne}

Distinct(list) == \A i, j \in 1..Len(list) : i # j => list[i].key # list[j].key

NonIncreasing(list) ==
    \A i \in 1..(Len(list) - 1) : QLeq(list[i + 1].score, list[i].score)

\* ranked lists of at most MaxLen entries: distinct ids, best score first
RankedLists(scores) ==
    UNION {{l \in [1..n -> [key : FusionIds, score : scores]] :
               Distinct(l) /\ NonIncreasing(l)} : n \in 0..MaxLen}

\* what vector_search returns
VectorResultLists == RankedLists(SemanticScores)

\* what keyword_search returns: the best score is 1.0
KeywordResultLists ==
    {l \in RankedLists(LexicalScores) : l # <<>> => l[1].score = QOne}

FusionIdle ==
    /\ in_vector_results = <<>>
    /\ in_keyword_results = <<>>
    /\ fused = Returned(<<>>)
    /\ fusion = "idle"

FusionInit ==
    /\ in_vector_results \in VectorResultLists
    /\ in_keyword_results \in KeywordResultLists
    /\ fused = Returned(<<>>)
    /\ fusion = "input"

FuseRRF ==
    /\ fusion = "input"
    /\ fused' = reciprocal_rank_fusion(in_vector_results, in_keyword_results, rrf_k)
    /\ fusion' = "rrf"
    /\ UNCHANGED <<in_vector_results, in_keyword_results, ragVars, rapVars, concVars>>

FuseLinear ==
    /\ fusion = "input"
    /\ fused' = linear_fusion(in_vector_results, in_keyword_results)
    /\ fusion' = "linear"
    /\ UNCHANGED <<in_vector_results, in_keyword_results, ragVars, rapVars, concVars>>

RagInit ==
    /\ initialized = FALSE
    /\ vector_index = <<>>
    /\ documents_metadata = <<>>
    /\ doc_ids_list = <<>>
    /\ call = Call("__init__", None)
    /\ result = Returned(<<>>)

SpecFusionInit == RagInit /\ FusionInit /\ RaptorIdle /\ ConcIdle

SpecFusionNext ==
    \/ FuseRRF
    \/ FuseLinear

SpecFusion == SpecFusionInit /\ [][SpecFusionNext]_vars

(***************************************************************************)
(* The service driven by one caller: any sequence of calls.                *)
(***************************************************************************)
SearchOps == {"vector_search", "keyword_search", "hybrid_search"}

\* The caller: any sequence of add_documents, delete_document and initialize
\* calls, closed by one search.  A search changes neither the index nor the
\* lookup, so calls after it would reach no corpus that is not reached
\* without it.
RagFrame ==
    /\ call.op \notin SearchOps
    /\ UNCHANGED <<fusVars, rapVars, concVars>>

Init == RagInit /\ FusionIdle /\ RaptorIdle /\ ConcIdle

AddDocuments ==
    /\ RagFrame
    /\ \E chunks \in ChunkLists, d \in DocIds : add_documents(chunks, d)
DeleteDocument ==
    /\ RagFrame
    /\ \E d \in DocIds : delete_document(d)
Initialize ==
    /\ RagFrame
    /\ initialize
VectorSearch ==
    /\ RagFrame
    /\ \E q \in Queries, top_k \in TopKs, d \in DocIds \cup {None},
          encode_fails \in BOOLEAN :
           call_vector_search(q, top_k, d, encode_fails)
KeywordSearch ==
    /\ RagFrame
    /\ \E q \in Queries, top_k \in TopKs, d \in DocIds \cup {None} :
           call_keyword_search(q, top_k, d)
HybridSearch ==
    /\ RagFrame
    /\ \E q \in Queries, top_k \in TopKs, d \in DocIds \cup {None},
          use_rrf \in BOOLEAN, encode_fails \in BOOLEAN :
           call_hybrid_search(q, top_k, d, use_rrf, encode_fails)

Next ==
    \/ AddDocuments
    \/ DeleteDocument
    \/ Initialize
    \/ VectorSearch
    \/ KeywordSearch
    \/ HybridSearch

Spec == Init /\ [][Next]_vars

(***************************************************************************)
(* One run of build_raptor_tree.                                           *)
(***************************************************************************)
SpecRaptorInit == RagInit /\ FusionIdle /\ RaptorInit /\ ConcIdle

SpecRaptorNext ==
    \/ BuildLevel0 /\ UNCHANGED <<ragVars, fusVars, concVars>>
    \/ BuildIteration /\ UNCHANGED <<ragVars, fusVars, concVars>>
    \/ BuildFinish /\ UNCHANGED <<ragVars, fusVars, concVars>>

SpecRaptor == SpecRaptorInit /\ [][SpecRaptorNext]_vars

(***************************************************************************)
(* A tree is built from a short fragment list, then queried once.          *)
(***************************************************************************)
SpecRetrieveInit ==
    /\ RagInit /\ FusionIdle /\ RaptorInit /\ ConcIdle
    /\ Len(chunks_in) <= MaxTreeFragments

SpecRetrieveNext ==
    \/ BuildLevel0 /\ UNCHANGED <<ragVars, fusVars, concVars>>
    \/ BuildIteration /\ UNCHANGED <<ragVars, fusVars, concVars>>
    \/ BuildFinish /\ UNCHANGED <<ragVars, fusVars, concVars>>
    \/ RetrieveFromRaptor /\ UNCHANGED <<ragVars, fusVars, concVars>>
    \/ GetRaptorSummary /\ UNCHANGED <<ragVars, fusVars, concVars>>

SpecRetrieve == SpecRetrieveInit /\ [][SpecRetrieveNext]_vars

(***************************************************************************)
(* One run of build_raptor_tree on a short fragment list, with progress:   *)
(* the call runs on one thread of control, which takes the next step of    *)
(* the function whenever there is one.                                     *)
(***************************************************************************)
SpecRaptorLive ==
    /\ SpecRetrieveInit
    /\ [][SpecRaptorNext]_vars
    /\ WF_vars(SpecRaptorNext)

(***************************************************************************)
(* The application: requests and the worker threads of their tasks.        *)
(***************************************************************************)
\* startup_event has initialised the services
SpecConcInit ==
    /\ initialized = TRUE
    /\ vector_index = <<>>
    /\ documents_metadata = <<>>
    /\ doc_ids_list = <<>>
    /\ call = Call("initialize", None)
    /\ result = Returned(<<>>)
    /\ FusionIdle
    /\ RaptorIdle
    /\ ConcIdle

ConcFrame == UNCHANGED <<fusVars, rapVars, hdlVars>>

Upload ==
    /\ ConcFrame
    /\ \E d \in UploadIds, parent \in UploadIds \cup {None} :
           upload_document(d, parent)
Delete ==
    /\ ConcFrame
    /\ \E d \in UploadIds : handle_delete_document(d)
Reindex ==
    /\ ConcFrame
    /\ \E d \in UploadIds : reindex_document(d)
IndexExtract == ConcFrame /\ \E j \in 1..Len(jobs) : index_extract(j)
AddEncode == ConcFrame /\ \E j \in 1..Len(jobs) : add_encode(j)
AddStore == ConcFrame /\ \E j \in 1..Len(jobs) : add_store(j)
AddIndex == ConcFrame /\ \E j \in 1..Len(jobs) : add_index(j)
IndexRaptor == ConcFrame /\ \E j \in 1..Len(jobs) : index_raptor(j)
SetIndexedLoad == ConcFrame /\ \E j \in 1..Len(jobs) : set_indexed_load(j)
SetIndexedSave == ConcFrame /\ \E j \in 1..Len(jobs) : set_indexed_save(j)
DeleteSelect == ConcFrame /\ \E j \in 1..Len(jobs) : delete_select(j)
DeleteRemove == ConcFrame /\ \E j \in 1..Len(jobs) : delete_remove(j)

SpecConcNext ==
    \/ Upload
    \/ Delete
    \/ Reindex
    \/ IndexExtract
    \/ AddEncode
    \/ AddStore
    \/ AddIndex
    \/ IndexRaptor
    \/ SetIndexedLoad
    \/ SetIndexedSave
    \/ DeleteSelect
    \/ DeleteRemove

SpecConc == SpecConcInit /\ [][SpecConcNext]_vars

(***************************************************************************)
(* The DELETE handler on the store a restarted server finds: documents     *)
(* indexed before the restart, any parent_id links, an empty corpus and no *)
(* task.  The handler is a coroutine the event loop runs to its end.       *)
(***************************************************************************)
DeleteIds == UploadIds \cup {<<"D", "3">>}

\* documents.json: documents with distinct ids from DeleteIds, in any order,
\* each with no parent or any id as parent_id
Stores ==
    UNION {{docs \in [1..n -> [key : DeleteIds, parent_id : DeleteIds \cup {None},
                                is_indexed : {TRUE}, chunk_count : 1..MaxChunks]] :
                /\ \A i, j \in 1..n : i # j => docs[i].key # docs[j].key
                /\ \A i \in 1..n : docs[i].chunk_count = Len(UploadedPdf(docs[i].key))} :
           n \in 0..Cardinality(DeleteIds)}

SpecDeleteInit ==
    /\ initialized = TRUE
    /\ vector_index = <<>>
    /\ documents_metadata = <<>>
    /\ doc_ids_list = <<>>
    /\ call = Call("initialize", None)
    /\ result = Returned(<<>>)
    /\ FusionIdle
    /\ RaptorIdle
    /\ persisted \in Stores
    /\ pdf_files = [d \in DictKeys(persisted) |-> UploadedPdf(d)]
    /\ raptor_files = DictKeys(persisted)
    /\ used_ids = DictKeys(persisted)
    /\ jobs = <<>>
    /\ requests = 0
    /\ delete_stack = <<>>
    /\ background_tasks = <<>>
    /\ response = Response(0, None)

DeleteRequest ==
    /\ UNCHANGED <<fusVars, rapVars>>
    /\ \E d \in DeleteIds : delete_request(d)
DeleteAttachment == UNCHANGED <<fusVars, rapVars>> /\ delete_attachment
DeleteReturn == UNCHANGED <<fusVars, rapVars>> /\ delete_return

SpecDeleteNext ==
    \/ DeleteRequest
    \/ DeleteAttachment
    \/ DeleteReturn

SpecDelete ==
    /\ SpecDeleteInit
    /\ [][SpecDeleteNext]_vars
    /\ WF_vars(DeleteAttachment \/ DeleteReturn)

(***************************************************************************)
(* Properties of the Vector Index and the lookup (Spec).                   *)
(***************************************************************************)
IdSet(list) == {list[i] : i \in 1..Len(list)}

\* the text the lookup holds for an id
TextOf(doc_id) == DictGet(documents_metadata, doc_id).text

\* C1: the Vector Index and the id list stay aligned: ntotal = len(doc_ids_list),
\* the vector at position i is the embedding of the text of doc_ids_list[i],
\* and every (id, score) pair vector_search returns carries the similarity of
\* the query to that id's own text.
C1_IndexAligned ==
    /\ ntotal = Len(doc_ids_list)
    /\ \A i \in 1..Min(ntotal, Len(doc_ids_list)) :
           DictHas(documents_metadata, doc_ids_list[i])
               => vector_index[i] = Embed(TextOf(doc_ids_list[i]))
    /\ call.op = "vector_search" =>
           \A i \in 1..Len(result.list) :
               DictHas(documents_metadata, result.list[i].key)
                   => result.list[i].score =
                          InnerProduct(Embed(call.query), Embed(TextOf(result.list[i].key)))

\* C2: after delete_document(D), hybrid_search(q, top_k, document_id=D)
\* returns an empty list (the embedder working).
C2_DeletedDocumentNotFound ==
    [][(/\ call.op = "delete_document"
        /\ call'.op = "hybrid_search"
        /\ ~call'.encode_fails
        /\ call'.document_id = call.document_id)
           => (result'.raised = "none" /\ result'.list = <<>>)]_vars

\* C5: add_documents for a document id that is already ingested does not
\* embed or append its fragments a second time: the index does not grow.
C5_NeverEmbeddedTwice ==
    [][(call'.op = "add_documents" /\ IsIngested(call'.document_id))
           => Len(vector_index') = Len(vector_index)]_vars

\* C6: the initialize() that follows a delete_document which removed fragments
\* rebuilds the index from the surviving fragments: ntotal is their number.
C6_InitializeRebuilds ==
    [][(/\ call.op = "delete_document"
        /\ call.removed > 0
        /\ call'.op = "initialize")
           => Len(vector_index') = Len(documents_metadata')]_vars

\* C8: the key set of documents_metadata equals the set of ids in
\* doc_ids_list, and doc_ids_list holds no id twice.
C8_LookupMatchesIdList ==
    /\ DictKeys(documents_metadata) = IdSet(doc_ids_list)
    /\ \A i, j \in 1..Len(doc_ids_list) : i # j => doc_ids_list[i] # doc_ids_list[j]

\* C8 witness: fragments were added again for an ingested document, then a
\* delete removed some fragments and left others
C8_Witness ==
    /\ call.op = "delete_document"
    /\ call.removed > 0
    /\ doc_ids_list # <<>>
    /\ ntotal > Len(doc_ids_list) + call.removed

\* the ids of a list, in order
KeysOf(list) == [i \in 1..Len(list) |-> list[i].key]

\* the ids of the records hybrid_search returns, in order
IdsOf(list) == [i \in 1..Len(list) |-> list[i].id]

\* C11: when the semantic sub-search of hybrid_search fails, the search is
\* not aborted: it returns the ranking of the lexical sub-search alone.
C11_SubSearchesIndependent ==
    (call.op = "hybrid_search" /\ call.encode_fails)
        => /\ result.raised = "none"
           /\ IdsOf(result.list) =
                  KeysOf(Take(keyword_search(call.query, call.lexical_k,
                                             call.document_id), call.top_k))

\* the 0-based index positions the semantic search of the last call was given
\* by index.search
HitPositions ==
    LET k == IF call.op = "hybrid_search" THEN call.semantic_k
             ELSE Min(call.top_k * 10, ntotal)
        hits == IndexSearch(vector_index, Embed(call.query), k)
    IN  {hits[i].idx : i \in 1..Len(hits)}

\* C12: a search that meets a vector of the index with no entry in the id
\* list reports a fatal error; it does not drop the hit and return.
C12_InconsistencyIsFatal ==
    (/\ call.op \in {"vector_search", "hybrid_search"}
     /\ ~call.encode_fails
     /\ \E idx \in HitPositions : idx >= Len(doc_ids_list))
        => result.raised # "none"

\* the position of an id in the lookup: the order of the corpus
CorpusPos(doc_id) ==
    CHOOSE i \in 1..Len(documents_metadata) : documents_metadata[i].key = doc_id

\* the terms of the last call's query
CallTerms == Split(Lower(call.query))

\* the lookup positions keyword_search takes as candidates for the last call:
\* all of them, or those whose id starts with the document id given
ScannedPositions ==
    {i \in 1..Len(documents_metadata) :
        call.document_id = None \/ StartsWith(documents_metadata[i].key, call.document_id)}

\* C13: keyword_search returns at most top_k pairs, every score in (0, 1],
\* the first score exactly 1.0, scores non-increasing with ties in corpus
\* order, and nothing when no query term occurs in any candidate text.
C13_KeywordContract ==
    call.op = "keyword_search" =>
        LET out == result.list
        IN  /\ result.raised = "none"
            /\ Len(out) <= call.top_k
            /\ \A i \in 1..Len(out) :
                   QLess(QZero, out[i].score) /\ QLeq(out[i].score, QOne)
            /\ out # <<>> => out[1].score = QOne
            /\ \A i \in 1..(Len(out) - 1) :
                   \/ QLess(out[i + 1].score, out[i].score)
                   \/ /\ out[i + 1].score = out[i].score
                      /\ CorpusPos(out[i].key) < CorpusPos(out[i + 1].key)
            /\ (\A i \in ScannedPositions : \A t \in 1..Len(CallTerms) :
                    ~Contains(Lower(documents_metadata[i].text), CallTerms[t]))
                   => out = <<>>

\* C13 witness: more matching fragments than top_k, two of them tied, and
\* one with a lower score than the best
C13_Witness ==
    /\ call.op = "keyword_search"
    /\ call.top_k = 2
    /\ Len(result.list) = 2
    /\ result.list[1].score = result.list[2].score
    /\ Len(documents_metadata) = 3
    /\ \E i \in 1..3 : documents_metadata[i].text = <<"B", " ", "c">>

\* the term is one of the words of the text, the words being what stands
\* between blanks
WholeWord(text, term) == \E w \in 1..Len(Split(text)) : Split(text)[w] = term

\* the score before normalisation of a text for the last call's query: the
\* number of terms found in it plus 0.5 per term that is a whole word
RawScore(text) ==
    Q(2 * Cardinality({t \in 1..Len(CallTerms) : Contains(Lower(text), CallTerms[t])})
        + Cardinality({t \in 1..Len(CallTerms) : WholeWord(Lower(text), CallTerms[t])}),
      2)

\* the lookup positions of the fragments of the document the last call names
DocumentPositions ==
    {i \in 1..Len(documents_metadata) :
        \/ call.document_id = None
        \/ documents_metadata[i].metadata.document_id = call.document_id}

\* those of them with a positive score
MatchingPositions ==
    {i \in DocumentPositions : QLess(QZero, RawScore(documents_metadata[i].text))}

\* the largest score among them
RawMax ==
    CHOOSE m \in {RawScore(documents_metadata[i].text) : i \in MatchingPositions} :
        \A i \in MatchingPositions : QLeq(RawScore(documents_metadata[i].text), m)

\* C14: keyword_search scores the fragments of the given document only (all
\* fragments when none is given), each by the number of query terms found in
\* its text plus 0.5 per term that is a whole word, before dividing by the
\* largest such score.
C14_KeywordScoring ==
    call.op = "keyword_search" =>
        LET out == result.list
        IN  /\ \A i \in 1..Len(out) :
                   \E p \in MatchingPositions :
                       /\ documents_metadata[p].key = out[i].key
                       /\ out[i].score =
                              QDiv(RawScore(documents_metadata[p].text), RawMax)
            /\ Len(out) = Min(call.top_k, Cardinality(MatchingPositions))

\* C15: hybrid_search(query, top_k) asks the semantic search for top_k * 10
\* candidates, bounded by the index size, and the lexical search for the same
\* oversampled count, top_k * 10.
C15_Oversampling ==
    call.op = "hybrid_search" =>
        /\ call.semantic_k = Min(call.top_k * 10, ntotal)
        /\ call.lexical_k = call.top_k * 10

\* C26: every record hybrid_search(query, top_k, document_id = D) returns
\* belongs to document D: its metadata.document_id is D.
C26_HybridScoped ==
    (call.op = "hybrid_search" /\ call.document_id # None /\ result.raised = "none") =>
        \A i \in 1..Len(result.list) :
            result.list[i].metadata.document_id = call.document_id

\* the lookup entries of the fragments documents other than document_id own
LookupOfOthers(md, document_id) ==
    SelectSeq(md, LAMBDA data : data.metadata.document_id # document_id)

\* the id-list entries of those fragments, owner as the lookup owners names it
IdsOfOthers(ids, owners, document_id) ==
    SelectSeq(ids, LAMBDA doc_id :
        /\ DictHas(owners, doc_id)
        /\ DictGet(owners, doc_id).metadata.document_id # document_id)

\* C27: delete_document(D) leaves the lookup entries and the id-list entries
\* of every fragment owned by another document as they were, also when the
\* other document's id has D as a string prefix.
C27_DeleteLeavesOthers ==
    [][call'.op = "delete_document" =>
          /\ LookupOfOthers(documents_metadata', call'.document_id)
                 = LookupOfOthers(documents_metadata, call'.document_id)
          /\ IdsOfOthers(doc_ids_list', documents_metadata, call'.document_id)
                 = IdsOfOthers(doc_ids_list, documents_metadata, call'.document_id)]_vars

\* C29: after add_documents(chunks, D), get_document_chunks(D) returns one
\* record per given chunk, with ids D_0..D_{n-1} and the given texts, and
\* nothing else, whatever was ingested for D before.
C29_ChunksAreTheGivenOnes ==
    [][\A chunks \in ChunkLists, d \in DocIds :
          add_documents(chunks, d) =>
              LET returned == get_document_chunks(documents_metadata', d)
              IN  /\ Len(returned) = Len(chunks)
                  /\ \A i \in 1..Len(chunks) :
                         /\ returned[i].id = FragId(d, i - 1)
                         /\ returned[i].text = chunks[i].text]_vars

(***************************************************************************)
(* Properties of the fusion functions (SpecFusion).                        *)
(***************************************************************************)
\* C3: every non-empty fused list has non-increasing scores and a maximum
\* score of exactly 1.0, for reciprocal_rank_fusion and for _linear_fusion.
C3_FusedNormalized ==
    (fusion \in {"rrf", "linear"} /\ fused.raised = "none" /\ fused.list # <<>>)
        => /\ NonIncreasing(fused.list)
           /\ MaxScore(fused.list) = QOne

\* 0-based rank of an id in a list that holds it
RankIn(list, id) == (CHOOSE i \in 1..Len(list) : list[i].key = id) - 1

Holds(list, id) == \E i \in 1..Len(list) : list[i].key = id

\* the sum, over the input lists that contain the id, of 1/(k + r + 1)
RRFSum(id) ==
    QAdd(IF Holds(in_vector_results, id)
         THEN Q(1, 60 + RankIn(in_vector_results, id) + 1) ELSE QZero,
         IF Holds(in_keyword_results, id)
         THEN Q(1, 60 + RankIn(in_keyword_results, id) + 1) ELSE QZero)

InputIds ==
    {in_vector_results[i].key : i \in 1..Len(in_vector_results)}
        \cup {in_keyword_results[i].key : i \in 1..Len(in_keyword_results)}

\* the largest of the sums
RRFMax == CHOOSE m \in {RRFSum(id) : id \in InputIds} :
              \A id \in InputIds : QLeq(RRFSum(id), m)

\* C9: reciprocal_rank_fusion scores every id by the sum over the lists that
\* contain it of 1/(k + r + 1), r its 0-based rank and k = 60, orders the ids
\* by that sum, highest first, and then divides by the largest sum.
C9_RRFFormula ==
    fusion = "rrf" =>
        /\ fused.raised = "none"
        /\ {fused.list[i].key : i \in 1..Len(fused.list)} = InputIds
        /\ Distinct(fused.list)
        /\ \A i \in 1..(Len(fused.list) - 1) :
               QLeq(RRFSum(fused.list[i + 1].key), RRFSum(fused.list[i].key))
        /\ \A i \in 1..Len(fused.list) :
               fused.list[i].score = QDiv(RRFSum(fused.list[i].key), RRFMax)

\* C9 witness: an id ranked by both lists, and one ranked by one list only
C9_Witness ==
    /\ fusion = "rrf"
    /\ Len(in_vector_results) = MaxLen
    /\ Len(in_keyword_results) = MaxLen
    /\ in_vector_results[1].key = in_keyword_results[2].key
    /\ in_vector_results[2].key # in_keyword_results[1].key
    /\ Len(fused.list) = 3

\* list A fused with the empty list: A's ids in A's order, the entry at
\* 0-based rank r scored (1/(k + r + 1)) / (1/(k + 1))
AloneRanking(A, out) ==
    /\ KeysOf(out) = KeysOf(A)
    /\ \A i \in 1..Len(out) : out[i].score = Q(60 + 1, 60 + i)

\* C10: reciprocal_rank_fusion(A, []) and reciprocal_rank_fusion([], A) return
\* the ids of A in A's order, scored by A's own contributions divided by the
\* largest of them.
C10_RRFWithEmptyList ==
    fusion = "rrf" =>
        /\ in_keyword_results = <<>> => AloneRanking(in_vector_results, fused.list)
        /\ in_vector_results = <<>> => AloneRanking(in_keyword_results, fused.list)

\* C10 witness: a list of several entries fused with the empty list
C10_Witness ==
    /\ fusion = "rrf"
    /\ in_keyword_results = <<>>
    /\ Len(in_vector_results) = MaxLen
    /\ Len(fused.list) = MaxLen

(***************************************************************************)
(* Properties of the tree build_raptor_tree returns (SpecRaptor).          *)
(***************************************************************************)
\* the nodes of a level, in the order they were appended
NodesAt(level) == SelectSeq(tree.nodes, LAMBDA node : node.level = level)

\* the clusters recorded for a level: tree["clusters"][f"level_{level}"]
ClustersAt(level) == DictGet(tree.clusters, LevelKey(level)).value

\* the ids of the level-(L-1) nodes that are the members of a cluster
MemberIds(level, cluster_indices) ==
    [p \in 1..Len(cluster_indices) |-> NodesAt(level - 1)[cluster_indices[p] + 1].id]

\* C4: for every level L from 1 to depth, the children of each level-L node
\* are exactly the ids of the level-(L-1) nodes of its cluster, so every
\* level-(L-1) node is a child of exactly one level-L node.
C4_ChildrenAreClusterMembers ==
    raptor_pc = "done" =>
        \A level \in 1..tree.depth :
            /\ \A c \in 1..Len(NodesAt(level)) :
                   NodesAt(level)[c].children = MemberIds(level, ClustersAt(level)[c])
            /\ \A m \in 1..Len(NodesAt(level - 1)) :
                   Cardinality({c \in 1..Len(NodesAt(level)) :
                                   InList(NodesAt(level)[c].children,
                                          NodesAt(level - 1)[m].id)}) = 1

\* the build has made level 0
Built == raptor_pc \in {"loop", "done"}

\* the text of a decimal number, written out digit by digit
Decimal(i) ==
    IF i < 10 THEN <<Digits[i + 1]>>
    ELSE <<Digits[(i \div 10) + 1], Digits[(i % 10) + 1]>>

\* C16: level 0 of the tree holds exactly one leaf per input fragment, in
\* input order, with id chunk_i and the i-th fragment as its text.
C16_Level0IsInput ==
    Built =>
        /\ Len(NodesAt(0)) = Len(chunks_in)
        /\ \A i \in 1..Len(chunks_in) :
               /\ NodesAt(0)[i].id = <<"chunk_">> \o Decimal(i - 1)
               /\ NodesAt(0)[i].text = chunks_in[i]
               /\ tree.nodes[i] = NodesAt(0)[i]

\* C16 witness: a finished tree with levels above 0 over fragments with
\* repeated texts
C16_Witness ==
    /\ raptor_pc = "done"
    /\ tree.depth >= 1
    /\ Len(chunks_in) >= 3
    /\ chunks_in[1] = chunks_in[3]
    /\ chunks_in[1] # chunks_in[2]

\* the ids of the nodes of a level
IdsAt(level) == {NodesAt(level)[i].id : i \in 1..Len(NodesAt(level))}

\* C17: every node at a level L > 0 has at least one child, and every child
\* id it lists is the id of a node at level L-1.
C17_ChildrenExist ==
    Built =>
        \A n \in 1..Len(tree.nodes) :
            tree.nodes[n].level > 0 =>
                /\ tree.nodes[n].children # <<>>
                /\ \A p \in 1..Len(tree.nodes[n].children) :
                       tree.nodes[n].children[p] \in IdsAt(tree.nodes[n].level - 1)

\* C17 witness: a finished tree of two levels above the leaves, with a node
\* of several children
C17_Witness ==
    /\ raptor_pc = "done"
    /\ tree.depth >= 2
    /\ \E n \in 1..Len(tree.nodes) :
           tree.nodes[n].level > 0 /\ Len(tree.nodes[n].children) >= 3

\* the levels that hold nodes
PopulatedLevels == {tree.nodes[n].level : n \in 1..Len(tree.nodes)}

\* C18: depth is the number of clustering iterations executed (one clusters
\* entry is recorded per iteration), is at most max_depth, and is the highest
\* level that holds nodes; every iteration ran on at least min_chunks items.
C18_DepthIsIterations ==
    raptor_pc = "done" =>
        /\ tree.depth = Len(tree.clusters)
        /\ tree.depth <= max_depth
        /\ \A level \in PopulatedLevels : level <= tree.depth
        /\ tree.nodes # <<>> => tree.depth \in PopulatedLevels
        /\ \A level \in 1..tree.depth : Len(NodesAt(level - 1)) >= min_chunks

\* C18 witness: a build that stopped before max_depth for want of items
C18_Witness ==
    /\ raptor_pc = "done"
    /\ tree.depth >= 1
    /\ tree.depth < max_depth
    /\ Len(NodesAt(tree.depth)) < min_chunks

\* the number of clusters an iteration over n items asks for
Wanted(n) == IF 2 >= n \div min_chunks THEN 2 ELSE n \div min_chunks

\* the number of distinct embeddings among the nodes of a level
DistinctAt(level) ==
    Cardinality({Embed(NodesAt(level)[i].text) : i \in 1..Len(NodesAt(level))})

\* the build of the scenario: 8 fragments, max_depth = 3, min_chunks = 4
Scenario8 ==
    raptor_pc = "done" /\ Len(chunks_in) = 8 /\ max_depth = 3 /\ min_chunks = 4

MemberTexts(level, c) ==
    [p \in 1..Len(ClustersAt(level)[c]) |->
        NodesAt(level - 1)[ClustersAt(level)[c][p] + 1].text]

\* the first n of the texts, joined by blanks
JoinFirst(texts, n) ==
    Join([p \in 1..(IF Len(texts) < n THEN Len(texts) ELSE n) |-> texts[p]])

\* C20: with the Summarizer unconfigured or failing the tree is still built,
\* one node per cluster at every level built, and the text of a node that did
\* not get an LLM summary is its first few member texts joined: the first
\* three when unconfigured, the first two when the call failed.
C20_PlaceholderSummaries ==
    \A level \in 1..Len(tree.clusters) :
        /\ Len(NodesAt(level)) = Len(ClustersAt(level))
        /\ \A c \in 1..Len(NodesAt(level)) :
               IF llm_client
               THEN NodesAt(level)[c].text \in
                        {LLMSummary, JoinFirst(MemberTexts(level, c), 2)}
               ELSE NodesAt(level)[c].text = JoinFirst(MemberTexts(level, c), 3)

\* C20 witness: a finished tree in which a cluster of more than three members
\* has a placeholder summary
C20_Witness ==
    /\ raptor_pc = "done"
    /\ tree.depth >= 1
    /\ \E c \in 1..Len(NodesAt(1)) :
           /\ Len(NodesAt(1)[c].children) > 3
           /\ NodesAt(1)[c].text # LLMSummary

\* C21: build_raptor_tree terminates for every fragment list, max_depth and
\* min_chunks, after at most max_depth clustering iterations (each iteration
\* records one clusters entry), also when clustering leaves the number of
\* items as it was.
C21_BuildTerminates ==
    /\ [](Len(tree.clusters) <= max_depth)
    /\ <>(raptor_pc = "done")

\* a single fragment with min_chunks = 1: every iteration turns the one item
\* into one item, and the build stops at max_depth
C21_Witness ==
    /\ raptor_pc = "done"
    /\ Len(chunks_in) = 1
    /\ min_chunks = 1
    /\ max_depth = MaxDepth
    /\ Len(tree.clusters) = MaxDepth
    /\ Len(current_chunks) = 1

(***************************************************************************)
(* Properties of retrieve_from_raptor and get_raptor_summary               *)
(* (SpecRetrieve).                                                         *)
(***************************************************************************)
\* the records the last call returned
Retrieved == raptor_result.value

RetrievedIds == {Retrieved[i].id : i \in 1..Len(Retrieved)}

\* the nodes at the levels 0..depth
NodesUpToDepth == SelectSeq(tree.nodes, LAMBDA node : node.level \in 0..tree.depth)

\* C22: retrieve_from_raptor with target_level = L returns only nodes whose
\* level is L, and an empty list when no node is at level L; with
\* target_level = None its candidates are the nodes of every level 0..depth:
\* it returns top_k of them, or all of them when they are fewer.
C22_TargetLevel ==
    raptor_call.op = "retrieve_from_raptor" =>
        /\ raptor_result.raised = "none"
        /\ IF raptor_call.target_level # None
           THEN LET level == raptor_call.target_level[1]
                IN  /\ \A i \in 1..Len(Retrieved) : Retrieved[i].level = level
                    /\ NodesAt(level) = <<>> => Retrieved = <<>>
           ELSE /\ RetrievedIds \subseteq
                       {NodesUpToDepth[n].id : n \in 1..Len(NodesUpToDepth)}
                /\ Len(Retrieved) = Min(raptor_call.top_k, Len(NodesUpToDepth))

\* the nodes of the levels the last call searched
SearchedNodes ==
    IF raptor_call.target_level # None
    THEN NodesAt(raptor_call.target_level[1])
    ELSE NodesUpToDepth

\* the similarity of a node's text to the query of the last call
NodeScore(node) == CosineSimilarity(raptor_call.query, node.text)

\* C23: retrieve_from_raptor returns at most top_k nodes of the searched
\* levels, each with its similarity to the query as score, in non-increasing
\* score order, and no node of a searched level that was left out has a
\* higher score than a returned one.
C23_GlobalRanking ==
    (raptor_call.op = "retrieve_from_raptor" /\ raptor_result.raised = "none") =>
        /\ Len(Retrieved) <= raptor_call.top_k
        /\ \A i \in 1..(Len(Retrieved) - 1) :
               QLeq(Retrieved[i + 1].score, Retrieved[i].score)
        /\ \A i \in 1..Len(Retrieved) :
               \E n \in 1..Len(SearchedNodes) :
                   /\ SearchedNodes[n].id = Retrieved[i].id
                   /\ SearchedNodes[n].level = Retrieved[i].level
                   /\ NodeScore(SearchedNodes[n]) = Retrieved[i].score
        /\ \A n \in 1..Len(SearchedNodes) :
               SearchedNodes[n].id \notin RetrievedIds =>
                   \A i \in 1..Len(Retrieved) :
                       QLeq(NodeScore(SearchedNodes[n]), Retrieved[i].score)

\* all levels searched, more nodes than top_k, a summary node ranked first
\* ahead of a leaf, and a node left out that scores lower than every
\* returned one
C23_Witness ==
    /\ raptor_call.op = "retrieve_from_raptor"
    /\ raptor_result.raised = "none"
    /\ raptor_call.target_level = None
    /\ raptor_call.top_k = 2
    /\ Len(Retrieved) = 2
    /\ Retrieved[1].level > 0
    /\ Retrieved[2].level = 0
    /\ \E n \in 1..Len(SearchedNodes) :
           /\ SearchedNodes[n].id \notin RetrievedIds
           /\ QLess(NodeScore(SearchedNodes[n]), Retrieved[2].score)

\* the texts of the nodes at a level, in the order the nodes were made
TextsAt(level) == [i \in 1..Len(NodesAt(level)) |-> NodesAt(level)[i].text]

\* the level the last get_raptor_summary call asked for
AskedLevel == IF raptor_call.level = -1 THEN tree.depth ELSE raptor_call.level

\* C24: get_raptor_summary(tree, level) with level = -1 answers for level
\* tree.depth; it returns the text of the level's node when there is one, the
\* texts of the level's nodes joined, in order, when there are several, and
\* the empty string when the level does not exist or has no node.
C24_Summary ==
    raptor_call.op = "get_raptor_summary" =>
        /\ raptor_result.raised = "none"
        /\ Retrieved = IF TextsAt(AskedLevel) = <<>> THEN <<>>
                       ELSE IF Len(TextsAt(AskedLevel)) = 1 THEN TextsAt(AskedLevel)[1]
                       ELSE JoinParagraphs(TextsAt(AskedLevel))

\* level = -1 on a tree whose top level holds several summaries
C24_Witness ==
    /\ raptor_call.op = "get_raptor_summary"
    /\ raptor_call.level = -1
    /\ tree.depth >= 1
    /\ Len(NodesAt(tree.depth)) >= 2
    /\ Retrieved = JoinParagraphs(TextsAt(tree.depth))

(***************************************************************************)
(* Properties of the DELETE handler (SpecDelete).                          *)
(***************************************************************************)
\* the ids that were issued and are no longer in the store: the documents
\* DELETE requests have removed
RemovedIds == used_ids \ DictKeys(persisted)

\* C25: the DELETE handler terminates, and once it has answered 200 the store
\* holds neither the document nor a document reachable from it through
\* parent_id links: the document is gone and no document left in the store
\* has a removed document as its parent, so that no chain of parent_id links
\* leads from a document of the store to the deleted one.
C25_DeleteCascades ==
    /\ [](delete_stack # <<>> => <>(delete_stack = <<>>))
    /\ []((delete_stack = <<>> /\ response.status = 200) =>
            /\ ~DictHas(persisted, response.document_id)
            /\ \A i \in 1..Len(persisted) : persisted[i].parent_id \notin RemovedIds)

\* D1 and D2 name each other as parent; D3 is an attachment of D2.  The
\* request for D1 has removed all three and its last activation is about to
\* return.
C25_Witness ==
    /\ Len(delete_stack) = 3
    /\ delete_stack[1].document_id = <<"D", "1">>
    /\ delete_stack[1].doc.parent_id = <<"D", "2">>
    /\ delete_stack[2].document_id = <<"D", "2">>
    /\ delete_stack[2].doc.parent_id = <<"D", "1">>
    /\ delete_stack[3].document_id = <<"D", "3">>
    /\ delete_stack[3].doc.parent_id = <<"D", "2">>
    /\ delete_stack[3].attachments = <<>>
    /\ persisted = <<>>

(***************************************************************************)
(* Properties of the application (SpecConc).                               *)
(***************************************************************************)
\* the jobs whose running task is inside add_documents or delete_document of
\* the shared rag_service: the call has begun and has not returned
InFlight ==
    {j \in 1..Len(jobs) : jobs[j].pc \in {"add_store", "add_index", "del_remove"}}

\* C7: at most one add_documents or delete_document call is in flight on the
\* shared rag_service at any time.
C7_OneCallInFlight == Cardinality(InFlight) <= 1


\* the documents a DELETE request has removed: their id was issued and the
\* store no longer holds them
DeletedDocuments == used_ids \ DictKeys(persisted)

\* the fragments of a document in the corpus: lookup entries and id-list
\* entries with the ids the document's fragments get
FragmentsOf(document_id) ==
    {documents_metadata[i].key : i \in {n \in 1..Len(documents_metadata) :
        documents_metadata[n].metadata.document_id = document_id}}
    \cup {doc_ids_list[i] : i \in {n \in 1..Len(doc_ids_list) :
        \E k \in 0..(MaxChunks - 1) : doc_ids_list[n] = FragId(document_id, k)}}

\* C28: once all background tasks have finished, the corpus holds no
\* fragment of a deleted document and no RAPTOR tree is persisted for it,
\* also when the document was deleted while its index_document task was
\* pending or running.
C28_DeletedStaysDeleted ==
    jobs = <<>> =>
        \A d \in DeletedDocuments :
            /\ FragmentsOf(d) = {}
            /\ d \notin raptor_files

\* C30: concurrent persistence updates to different documents both survive:
\* once the tasks have finished, documents.json holds every document whose
\* file was uploaded and not deleted (save_document) and shows it as indexed
\* (set_document_indexed).
C30_UpdatesSurvive ==
    jobs = <<>> =>
        \A d \in Keys(pdf_files) :
            /\ DictHas(persisted, d)
            /\ DictGet(persisted, d).is_indexed

====
